---------------------------- MODULE Spec2Model ----------------------------
(***************************************************************************)
(* Model of the session-summary request pipeline of DND-AI: the streaming  *)
(* API handler (src/unnamed/part_000, lines 1-422) with its frame emitter, *)
(* its temp-file handling and the parser of the model output, and the     *)
(* read loop of the page that consumes the response (lines 573-715).       *)
(*                                                                         *)
(* Conventions.  A JavaScript string is a sequence of tokens; the token    *)
(* " " is whitespace and every other token is a non-blank character or a   *)
(* fixed text without surrounding whitespace.  A JSON value is a record    *)
(* with a tag t: "undef" (absent property), "null", "num", "str", "arr",   *)
(* "obj".  A text handed to JSON.parse is represented by the value it      *)
(* decodes to, or by the tag "notjson" / "empty" when it does not decode.  *)
(***************************************************************************)
EXTENDS Integers, Sequences, FiniteSets, TLC

VARIABLES
    pc,             \* position of the handler (or of the harness of a pure function)
    method,         \* req.method
    hasKey,         \* process.env.OPENAI_KEY is set
    status,         \* res.status(...) last set, 0 when never set
    jsonBody,       \* res.json({error}) body of a non-streamed answer, <<>> when none
    allowHeader,    \* the Allow header, <<>> when never set
    frames,         \* the lines written with res.write, in order
    responseEnded,  \* the handler's close guard
    writableEnded,  \* res.writableEnded
    endCalls,       \* number of calls of res.end() made by the handler
    extEnded,       \* the transport was ended from outside
    terminalRun,    \* sendError or sendResult has run
    fsFiles,        \* paths that exist in temp storage
    unlinks,        \* paths removed by a successful unlink, in order
    audioFile,      \* the formidable file of the upload, NoFile when none
    players,        \* cleanedPlayers, the roster
    readablePath,   \* the path returned by ensureExtensionOnPath
    transcriptText, \* the trimmed transcript
    thrown,         \* message of the error in flight inside a try, <<>> when none
    transcribeCalls,\* calls of openai.audio.transcriptions.create
    completionCalls,\* calls of openai.chat.completions.create
    content,        \* completion.choices[0].message.content
    parsed,         \* the value returned by parseSummaries, NoParsed before
    fieldsPlayers,   \* fields.players as parseMultipart returned it
    unlinkFailures, \* paths whose unlink was rejected (swallowed by .catch), in order
    sent,           \* the bytes of the response body the client is given
    wire,           \* the bytes of the body reader.read() has not returned yet
    cancelled,      \* reader.cancel() has been called
    decoderPending, \* bytes of an incomplete character held by the TextDecoder
    buffered,       \* the client's text buffer
    decodedLog,     \* the events JSON.parse returned in processBuffer, in order
    encounteredError, \* the client's encounteredError
    streamResult,   \* the client's streamResult
    error,          \* React state error
    result,         \* React state result
    statusMessage,  \* React state statusMessage
    isLoading       \* React state isLoading

vars == <<pc, method, hasKey, status, jsonBody, allowHeader, frames,
          responseEnded, writableEnded, endCalls, extEnded, terminalRun,
          fsFiles, unlinks, audioFile, players, readablePath, transcriptText,
          thrown, transcribeCalls, completionCalls, content, parsed,
          fieldsPlayers, unlinkFailures, sent, wire, cancelled, decoderPending,
          buffered, decodedLog, encounteredError, streamResult, error, result,
          statusMessage, isLoading>>

\* the state of the page's handleSubmit
clientVars == <<sent, wire, cancelled, decoderPending, buffered, decodedLog,
                encounteredError, streamResult, error, result, statusMessage,
                isLoading>>

-----------------------------------------------------------------------------
(* Bounds of the explored inputs *)
MaxRoster  == 2     \* longest roster
MaxEntries == 2     \* longest players array of a model output
MaxCalls   == 3     \* frames written by the emitter harness before it stops

-----------------------------------------------------------------------------
(* Strings *)

RECURSIVE TrimStart(_)
TrimStart(s) == IF s # <<>> /\ Head(s) = " " THEN TrimStart(Tail(s)) ELSE s

RECURSIVE TrimEnd(_)
TrimEnd(s) ==
    IF s # <<>> /\ s[Len(s)] = " " THEN TrimEnd(SubSeq(s, 1, Len(s) - 1)) ELSE s

\* String.prototype.trim
Trim(s) == TrimEnd(TrimStart(s))

\* Array.prototype.map
Map(Op(_), s) == [i \in 1..Len(s) |-> Op(s[i])]

SeqsUpTo(S, n) == UNION {[1..k -> S] : k \in 0..n}

Range(s) == {s[i] : i \in 1..Len(s)}

-----------------------------------------------------------------------------
(* JSON values *)

Undef   == [t |-> "undef"]
JNull   == [t |-> "null"]
JNum    == [t |-> "num"]
JStr(s) == [t |-> "str", s |-> s]
JArr(a) == [t |-> "arr", items |-> a]
JEntry(name, points) == [t |-> "obj", name |-> name, points |-> points]
JTop(dm, pl) == [t |-> "obj", dmSummary |-> dm, players |-> pl]
NotJson == [t |-> "notjson"]
EmptyText == [t |-> "empty"]

\* v.key for a value that is neither null nor undefined
Prop(v, key) == IF v.t = "obj" /\ key \in DOMAIN v THEN v[key] ELSE Undef

\* !v
Falsy(v) == \/ v.t \in {"undef", "null", "empty"}
            \/ v.t = "str" /\ v.s = <<>>

IsString(v) == v.t = "str"
IsArray(v)  == v.t = "arr"

-----------------------------------------------------------------------------
(* parseSummaries *)

NO_SUMMARY   == <<"No summary was generated for this player.">>
NOT_PARSED   == <<"The AI response could not be parsed.">>
NO_OVERALL   == <<"The AI response did not include an overall summary for the Dungeon Master.">>

entryKept(entry) == IsString(Prop(entry, "name")) /\ IsArray(Prop(entry, "points"))

pointKept_AnyString(point) == IsString(point)

pointKept(point) == IsString(point) /\ Len(Trim(point.s)) > 0

pointText_Untrimmed(point) == point.s

pointText(point) == Trim(point.s)

toSummary(entry) ==
    [name   |-> entry.name.s,
     points |-> Map(pointText, SelectSeq(entry.points.items, pointKept))]

\* new Set(players): the distinct names in the order of their first occurrence
RECURSIVE SetOfSeq(_)
SetOfSeq(s) ==
    IF s = <<>> THEN <<>>
    ELSE LET init == SetOfSeq(SubSeq(s, 1, Len(s) - 1))
             last == s[Len(s)]
         IN  IF last \in Range(init) THEN init ELSE Append(init, last)

missingPlayersOf_NoSet(summaries, roster) ==
    LET names == {summaries[i].name : i \in 1..Len(summaries)}
        isMissing(n) == n \notin names
    IN  SelectSeq(roster, isMissing)

missingPlayersOf_KeepAll(summaries, roster) == SetOfSeq(roster)

missingPlayersOf_Reversed(summaries, roster) ==
    LET names == {summaries[i].name : i \in 1..Len(summaries)}
        isMissing(n) == n \notin names
        missing == SelectSeq(SetOfSeq(roster), isMissing)
    IN  [i \in 1..Len(missing) |-> missing[Len(missing) + 1 - i]]

missingPlayersOf(summaries, roster) ==
    LET names == {summaries[i].name : i \in 1..Len(summaries)}
        isMissing(n) == n \notin names
    IN  SelectSeq(SetOfSeq(roster), isMissing)

placeholder(name) == [name |-> name, points |-> <<NO_SUMMARY>>]

fallbackEntry(name) == [name |-> name, points |-> <<NOT_PARSED>>]

overallSummaryOf_Untrimmed(parsedJson) ==
    LET dm == Prop(parsedJson, "dmSummary")
    IN  IF IsString(dm) /\ Len(Trim(dm.s)) > 0 THEN dm.s ELSE NO_OVERALL

overallSummaryOf(parsedJson) ==
    LET dm == Prop(parsedJson, "dmSummary")
    IN  IF IsString(dm) /\ Len(Trim(dm.s)) > 0 THEN Trim(dm.s) ELSE NO_OVERALL

\* the statements of the try block raise an exception
tryThrows(raw) ==
    \/ raw.t \in {"notjson", "empty"}                     \* JSON.parse
    \/ raw.t = "null"                                     \* parsed.players of null
    \/ Falsy(Prop(raw, "players"))                        \* Invalid response shape
    \/ ~IsArray(Prop(raw, "players"))
    \/ \E i \in 1..Len(raw.players.items) :               \* entry.name of null
           raw.players.items[i].t = "null"

Thrown == [threw |-> TRUE, overallSummary |-> <<>>, summaries |-> <<>>]

\* the try block: an exception, or the value of its return statement
tryBlock(raw, roster) ==
    IF tryThrows(raw) THEN Thrown
    ELSE LET kept      == Map(toSummary, SelectSeq(raw.players.items, entryKept))
             summaries == kept \o Map(placeholder, missingPlayersOf(kept, roster))
         IN  [threw |-> FALSE,
              overallSummary |-> overallSummaryOf(raw),
              summaries |-> summaries]

catchBlock(roster) ==
    [threw |-> FALSE,
     overallSummary |-> NOT_PARSED,
     summaries |-> Map(fallbackEntry, roster)]

parseSummaries_NoCatch(raw, roster) == tryBlock(raw, roster)

\* threw stays FALSE as long as every exception of the try block is caught
parseSummaries(raw, roster) ==
    LET r == tryBlock(raw, roster)
    IN  IF r.threw THEN catchBlock(roster) ELSE r

NoParsed == [threw |-> FALSE, overallSummary |-> <<>>, summaries |-> <<>>]

-----------------------------------------------------------------------------
(* Inputs of the parser harness *)

RosterNames == {<<"a">>, <<"b">>}

Rosters == SeqsUpTo(RosterNames, MaxRoster) \ {<<>>}

EntryNameValues ==
    {Undef, JStr(<<"a">>), JStr(<<"b">>), JStr(<<" ", "a">>), JStr(<<"A">>)}

\* points: absent, not an array, and arrays with blank, padded and non-string values
PointsValues ==
    {Undef, JStr(<<"x">>), JArr(<<>>),
     JArr(<<JNum, JStr(<<" ">>)>>),
     JArr(<<JStr(<<"y">>), JStr(<<" ", "x", " ">>)>>),
     JArr(<<JNum, JStr(<<" ">>), JStr(<<"y">>)>>)}

EntryValues ==
    {JNull, JNum} \cup {JEntry(n, p) : n \in EntryNameValues, p \in PointsValues}

DmValues == {Undef, JStr(<<" ", "s", " ">>)}

PlayersValues ==
    {Undef, JNull, JStr(<<"x">>)} \cup {JArr(a) : a \in SeqsUpTo(EntryValues, MaxEntries)}

RawTexts ==
    {NotJson, EmptyText, JNull, JNum, JStr(<<"x">>), JArr(<<>>)}
        \cup {JTop(dm, pl) : dm \in DmValues, pl \in PlayersValues}

-----------------------------------------------------------------------------
(* Initial values shared by the specifications *)

NoFile == [filepath |-> <<>>, originalFilename |-> Undef, mimetype |-> Undef, size |-> 0]

Idle ==
    /\ status = 0
    /\ jsonBody = <<>>
    /\ allowHeader = <<>>
    /\ frames = <<>>
    /\ responseEnded = FALSE
    /\ writableEnded = FALSE
    /\ endCalls = 0
    /\ extEnded = FALSE
    /\ terminalRun = FALSE
    /\ fsFiles = {}
    /\ unlinks = <<>>
    /\ audioFile = NoFile
    /\ readablePath = <<>>
    /\ transcriptText = <<>>
    /\ thrown = <<>>
    /\ transcribeCalls = 0
    /\ completionCalls = 0
    /\ fieldsPlayers = Undef
    /\ unlinkFailures = <<>>

\* the page before a submission
ClientIdle ==
    /\ sent = <<>>
    /\ wire = <<>>
    /\ cancelled = FALSE
    /\ decoderPending = <<>>
    /\ buffered = <<>>
    /\ decodedLog = <<>>
    /\ encounteredError = JNull
    /\ streamResult = JNull
    /\ error = JNull
    /\ result = JNull
    /\ statusMessage = JNull
    /\ isLoading = FALSE

-----------------------------------------------------------------------------
(* Harness of parseSummaries: one call on a roster and a completion text *)

InitParse ==
    /\ Idle
    /\ ClientIdle
    /\ method = "POST"
    /\ hasKey = TRUE
    /\ pc = "parse_call"
    /\ players \in Rosters
    /\ content \in RawTexts
    /\ parsed = NoParsed

CallParseSummaries ==
    /\ pc = "parse_call"
    /\ parsed' = parseSummaries(content, players)
    /\ pc' = "parse_ret"
    /\ UNCHANGED <<method, hasKey, status, jsonBody, allowHeader, frames,
                   responseEnded, writableEnded, endCalls, extEnded, terminalRun,
                   fsFiles, unlinks, audioFile, players, readablePath,
                   transcriptText, thrown, transcribeCalls, completionCalls, content,
                   fieldsPlayers, unlinkFailures, clientVars>>

NextParse == CallParseSummaries

SpecParse == InitParse /\ [][NextParse]_vars

-----------------------------------------------------------------------------
(* The frame emitter of the handler: writeLine, endResponse, sendProgress,  *)
(* sendError, sendResult.  They act on the emitter state e, the record of   *)
(* frames, responseEnded, writableEnded, endCalls and terminalRun.         *)

NoPayload == [transcript |-> <<>>, dmSummary |-> <<>>, summaries |-> <<>>]

ProgressFrame(message) == [type |-> "progress", message |-> message, payload |-> NoPayload]
ErrorFrame(message)    == [type |-> "error", message |-> message, payload |-> NoPayload]
ResultFrame(payload)   == [type |-> "result", message |-> <<>>, payload |-> payload]

Em == [frames |-> frames, responseEnded |-> responseEnded,
       writableEnded |-> writableEnded, endCalls |-> endCalls,
       terminalRun |-> terminalRun]

SetEm(e) ==
    /\ frames' = e.frames
    /\ responseEnded' = e.responseEnded
    /\ writableEnded' = e.writableEnded
    /\ endCalls' = e.endCalls
    /\ terminalRun' = e.terminalRun

writeLine_Unguarded(e, frame) == [e EXCEPT !.frames = Append(@, frame)]

writeLine_IgnoresTransport(e, frame) ==
    IF e.responseEnded THEN e
    ELSE [e EXCEPT !.frames = Append(@, frame)]

writeLine(e, frame) ==
    IF e.responseEnded \/ e.writableEnded THEN e
    ELSE [e EXCEPT !.frames = Append(@, frame)]

endResponse_Unguarded(e) ==
    [e EXCEPT !.responseEnded = TRUE, !.writableEnded = TRUE, !.endCalls = @ + 1]

\* res.end() sets res.writableEnded
endResponse(e) ==
    IF ~e.responseEnded /\ ~e.writableEnded
    THEN [e EXCEPT !.responseEnded = TRUE, !.writableEnded = TRUE, !.endCalls = @ + 1]
    ELSE e

sendProgress_Silent(e, message) == e

sendProgress(e, message) == writeLine(e, ProgressFrame(message))

sendError_NoEnd(e, message) ==
    [writeLine(e, ErrorFrame(message)) EXCEPT !.terminalRun = TRUE]

sendError(e, message) ==
    [endResponse(writeLine(e, ErrorFrame(message))) EXCEPT !.terminalRun = TRUE]

sendResult(e, payload) ==
    [endResponse(writeLine(e, ResultFrame(payload))) EXCEPT !.terminalRun = TRUE]

\* the catch clause of the handler
catchError(e, message) ==
    IF ~e.responseEnded /\ ~e.writableEnded THEN sendError(e, message) ELSE e

\* the client goes away and the transport is ended from outside
ExternalEnd ==
    /\ pc \in {"emit", "parseMultipart", "rename", "copyFile", "unlinkOriginal",
               "stat", "toFile", "transcribe", "unlink", "completion"}
    /\ ~writableEnded
    /\ writableEnded' = TRUE
    /\ extEnded' = TRUE
    /\ UNCHANGED <<pc, method, hasKey, status, jsonBody, allowHeader, frames,
                   responseEnded, endCalls, terminalRun, fsFiles, unlinks,
                   audioFile, players, readablePath, transcriptText, thrown,
                   transcribeCalls, completionCalls, content, parsed,
                   fieldsPlayers, unlinkFailures, clientVars>>

-----------------------------------------------------------------------------
(* Harness of the emitter: its functions called in any order *)

EmitMessages == {<<"Parsing upload">>, <<"Transcription complete">>, <<"boom">>}

EmitPayloads ==
    {NoPayload,
     [transcript |-> <<"t">>, dmSummary |-> NO_OVERALL,
      summaries |-> <<placeholder(<<"a">>)>>]}

nonEmitterVars ==
    <<pc, method, hasKey, status, jsonBody, allowHeader, extEnded, fsFiles, unlinks,
      audioFile, players, readablePath, transcriptText, thrown, transcribeCalls,
      completionCalls, content, parsed, fieldsPlayers, unlinkFailures, clientVars>>

InitEmitter ==
    /\ Idle
    /\ ClientIdle
    /\ method = "POST"
    /\ hasKey = TRUE
    /\ pc = "emit"
    /\ players = <<>>
    /\ content = Undef
    /\ parsed = NoParsed

CanCall == pc = "emit" /\ Len(frames) < MaxCalls

CallSendProgress ==
    /\ CanCall
    /\ \E m \in EmitMessages : SetEm(sendProgress(Em, m))
    /\ UNCHANGED nonEmitterVars

CallSendError ==
    /\ CanCall
    /\ \E m \in EmitMessages : SetEm(sendError(Em, m))
    /\ UNCHANGED nonEmitterVars

CallSendResult ==
    /\ CanCall
    /\ \E p \in EmitPayloads : SetEm(sendResult(Em, p))
    /\ UNCHANGED nonEmitterVars

CallWriteLine ==
    /\ CanCall
    /\ \E m \in EmitMessages : SetEm(writeLine(Em, ProgressFrame(m)))
    /\ UNCHANGED nonEmitterVars

NextEmitter ==
    \/ CallSendProgress
    \/ CallSendError
    \/ CallSendResult
    \/ CallWriteLine
    \/ ExternalEnd

SpecEmitter == InitEmitter /\ [][NextEmitter]_vars

-----------------------------------------------------------------------------
(* Audio extension resolver *)

UpperChars == <<"A", "B", "C", "D", "E", "F", "G", "H", "I", "J", "K", "L", "M",
                "N", "O", "P", "Q", "R", "S", "T", "U", "V", "W", "X", "Y", "Z">>
LowerChars == <<"a", "b", "c", "d", "e", "f", "g", "h", "i", "j", "k", "l", "m",
                "n", "o", "p", "q", "r", "s", "t", "u", "v", "w", "x", "y", "z">>
DigitChars == <<"0", "1", "2", "3", "4", "5", "6", "7", "8", "9">>

toLowerChar(c) ==
    IF c \in Range(UpperChars)
    THEN LowerChars[CHOOSE i \in 1..Len(UpperChars) : UpperChars[i] = c]
    ELSE c

\* String.prototype.toLowerCase
toLowerCase(s) == Map(toLowerChar, s)

\* [a-z0-9] under the i flag
IsAlnum(c) == c \in Range(UpperChars) \cup Range(LowerChars) \cup Range(DigitChars)

\* String.prototype.endsWith
endsWith(s, suffix) ==
    /\ Len(suffix) <= Len(s)
    /\ SubSeq(s, Len(s) - Len(suffix) + 1, Len(s)) = suffix

\* /\.([a-z0-9]+)$/i : the text after the last dot, when it is alphanumeric
extensionFromFilename(fileName) ==
    IF Falsy(fileName) THEN <<>>
    ELSE LET n    == fileName.s
             dots == {i \in 1..Len(n) : n[i] = "."}
         IN  IF dots = {} THEN <<>>
             ELSE LET d   == CHOOSE i \in dots : \A j \in dots : j <= i
                      suf == SubSeq(n, d + 1, Len(n))
                  IN  IF suf # <<>> /\ \A k \in 1..Len(suf) : IsAlnum(suf[k])
                      THEN toLowerCase(suf) ELSE <<>>

MimeMap ==
    {<< <<"a","u","d","i","o","/","m","p","e","g">>, <<"m","p","3">> >>,
     << <<"a","u","d","i","o","/","m","p","3">>, <<"m","p","3">> >>,
     << <<"a","u","d","i","o","/","w","a","v">>, <<"w","a","v">> >>,
     << <<"a","u","d","i","o","/","x","-","w","a","v">>, <<"w","a","v">> >>,
     << <<"a","u","d","i","o","/","w","e","b","m">>, <<"w","e","b","m">> >>,
     << <<"a","u","d","i","o","/","o","g","g">>, <<"o","g","g">> >>,
     << <<"a","u","d","i","o","/","a","a","c">>, <<"a","a","c">> >>,
     << <<"a","u","d","i","o","/","m","p","4">>, <<"m","4","a">> >>,
     << <<"a","u","d","i","o","/","x","-","m","4","a">>, <<"m","4","a">> >>,
     << <<"a","u","d","i","o","/","f","l","a","c">>, <<"f","l","a","c">> >>}

extensionFromMime(mimeType) ==
    IF Falsy(mimeType) THEN <<>>
    ELSE LET hits == {e \in MimeMap : e[1] = toLowerCase(mimeType.s)}
         IN  IF hits = {} THEN <<>> ELSE (CHOOSE e \in hits : TRUE)[2]

extensionOf_MimeFirst(file) ==
    LET nameExt == extensionFromFilename(file.originalFilename)
        mimeExt == extensionFromMime(file.mimetype)
    IN  IF mimeExt # <<>> THEN mimeExt ELSE nameExt

\* const extension = nameExt || mimeExt
extensionOf(file) ==
    LET nameExt == extensionFromFilename(file.originalFilename)
        mimeExt == extensionFromMime(file.mimetype)
    IN  IF nameExt # <<>> THEN nameExt ELSE mimeExt

newPathOf(file) == file.filepath \o <<".">> \o extensionOf(file)

\* ensureExtensionOnPath returns file.filepath without touching the disk
keepsPath(file) ==
    \/ extensionOf(file) = <<>>
    \/ endsWith(toLowerCase(file.filepath), <<".">> \o extensionOf(file))

-----------------------------------------------------------------------------
(* Inputs of the handler *)

\* a form field: its text and what JSON.parse makes of it
Text(s, json) == [t |-> "str", s |-> s, json |-> json]

FieldTexts ==
    {Text(<<" ", "a">>, NotJson),
     Text(<<" ">>, NotJson),
     Text(<<"7">>, JNum),
     Text(<<"[a,b]">>, JArr(<<JStr(<<"a">>), JStr(<<"b", " ">>)>>)),
     Text(<<"[a,a]">>, JArr(<<JStr(<<"a">>), JStr(<<"a">>)>>)),
     Text(<<"[]">>, JArr(<<>>)),
     Text(<<"[ ]">>, JArr(<<JStr(<<" ">>)>>)),
     Text(<<"[7]">>, JArr(<<JNum>>))}

\* fields.players: absent, one string, or several strings
PlayersFields ==
    {Undef} \cup FieldTexts
        \cup {JArr(<<>>),
              JArr(<<Text(<<"[a,b]">>, JArr(<<JStr(<<"a">>), JStr(<<"b", " ">>)>>))>>),
              JArr(<<Text(<<"b">>, NotJson), Text(<<" ", "a">>, NotJson)>>),
              JArr(<<Text(<<" ">>, NotJson), Text(<<"[]">>, JArr(<<>>))>>)}

FilePaths == {<<"u">>, <<"u", ".", "M", "P", "3">>}

FileNames ==
    {Undef, JStr(<<"v">>), JStr(<<"v", ".", "M", "P", "3">>), JStr(<<"v", ".">>),
     JStr(<<"v", ".", "w", ".", "-">>)}

MimeTypes == {Undef, JStr(<<"t", "/", "x">>), JStr(<<"A","u","d","i","o","/","W","A","V">>)}

AudioFiles ==
    [filepath : FilePaths, originalFilename : FileNames, mimetype : MimeTypes,
     size : {0, 1}]

\* the text field of a transcription response; Undef when the field is missing
TranscriptionTexts == {Undef, JStr(<<>>), JStr(<<" ">>), JStr(<<" ", "t">>)}

HandlerContents ==
    {EmptyText, NotJson, JNull, JNum,
     JTop(Undef, Undef),
     JTop(Undef, JArr(<<JNull>>)),
     JTop(Undef, JArr(<<JEntry(JStr(<<"A">>), Undef), JNum>>)),
     JTop(JStr(<<" ", "s">>),
          JArr(<<JEntry(JStr(<<"a">>), JArr(<<JStr(<<" ", "x">>), JNum>>))>>)),
     JTop(JStr(<<"s", " ", "s", " ">>), JArr(<<>>)),
     JTop(JStr(<<>>), JArr(<<>>)),
     JTop(JStr(<<" ">>), JArr(<<>>)),
     JTop(JNum, JArr(<<>>)),
     JTop(JNull, JArr(<<>>))}

ERR_UPLOAD     == <<"maxFileSize exceeded">>
ERR_TRIM       == <<"player.trim is not a function">>
ERR_COPY       == <<"EXDEV: copyfile failed">>
ERR_STAT       == <<"EIO: stat failed">>
ERR_EMPTY_FILE == <<"Uploaded audio file is empty">>
ERR_READ       == <<"EIO: read failed">>
ERR_UPSTREAM   == <<"Connection error.">>
ERR_NO_TEXT    == <<"Transcription response missing text field">>

-----------------------------------------------------------------------------
(* Roster normalization *)

\* one entry of the flatMap: the decoded array, or the entry itself
namesOfText(entry) ==
    IF IsArray(entry.json) THEN entry.json.items ELSE <<JStr(entry.s)>>

RECURSIVE FlatMapNames(_)
FlatMapNames(entries) ==
    IF entries = <<>> THEN <<>>
    ELSE namesOfText(Head(entries)) \o FlatMapNames(Tail(entries))

playerNamesOf(playersField) ==
    IF IsArray(playersField) THEN FlatMapNames(playersField.items)
    ELSE IF IsString(playersField) THEN namesOfText(playersField)
    ELSE <<>>

\* player.trim() raises a TypeError on a value that is not a string
trimThrows(playerNames) == \E i \in 1..Len(playerNames) : ~IsString(playerNames[i])

trimmedName_Raw(player) == player.s

trimmedName(player) == Trim(player.s)

nonEmpty(s) == Len(s) > 0

cleanedPlayersOf(playerNames) == SelectSeq(Map(trimmedName, playerNames), nonEmpty)

-----------------------------------------------------------------------------
(* The handler, one action per step between two awaits *)

reqVars  == <<method, hasKey>>
httpVars == <<status, jsonBody, allowHeader>>
emVars   == <<frames, responseEnded, writableEnded, endCalls, terminalRun>>
fsVars   == <<fsFiles, unlinks>>
callVars == <<transcribeCalls, completionCalls>>

Init ==
    /\ Idle
    /\ ClientIdle
    /\ method \in {"POST", "GET"}
    /\ hasKey \in BOOLEAN
    /\ pc = "start"
    /\ players = <<>>
    /\ content = Undef
    /\ parsed = NoParsed

ensureEnvThrows_Never(key) == FALSE

\* ensureEnv throws when process.env.OPENAI_KEY is not set
ensureEnvThrows(key) == ~key

\* method and credential checks, stream headers, first progress frame
Start ==
    /\ pc = "start"
    /\ IF method # "POST"
       THEN /\ allowHeader' = <<"POST">>
            /\ status' = 405
            /\ jsonBody' = <<"Method not allowed">>
            /\ writableEnded' = TRUE
            /\ pc' = "done"
            /\ UNCHANGED <<frames, responseEnded, endCalls, terminalRun>>
       ELSE IF ensureEnvThrows(hasKey)
       THEN /\ status' = 500
            /\ jsonBody' = <<"OPENAI_KEY is not configured">>
            /\ writableEnded' = TRUE
            /\ pc' = "done"
            /\ UNCHANGED <<allowHeader, frames, responseEnded, endCalls, terminalRun>>
       ELSE /\ status' = 200
            /\ SetEm(sendProgress(Em, <<"Parsing upload">>))
            /\ pc' = "parseMultipart"
            /\ UNCHANGED <<allowHeader, jsonBody>>
    /\ UNCHANGED <<reqVars, clientVars, fieldsPlayers, unlinkFailures,
                   extEnded, fsVars, audioFile, players, readablePath,
                   transcriptText, thrown, callVars, content, parsed>>

\* parseMultipart rejects: the catch clause answers
ParseMultipartReject ==
    /\ pc = "parseMultipart"
    /\ thrown' = ERR_UPLOAD
    /\ SetEm(catchError(Em, ERR_UPLOAD))
    /\ pc' = "done"
    /\ UNCHANGED <<reqVars, clientVars, fieldsPlayers, unlinkFailures,
                   httpVars, extEnded, fsVars, audioFile, players,
                   readablePath, transcriptText, callVars, content, parsed>>

\* parseMultipart resolves: roster normalization, validation of roster and audio
\* part, and ensureExtensionOnPath up to its first await
ParseMultipartResolve ==
    /\ pc = "parseMultipart"
    /\ \E field \in PlayersFields, file \in AudioFiles \cup {NoFile} :
         LET playerNames == playerNamesOf(field)
             cleaned     == cleanedPlayersOf(playerNames)
         IN  /\ fieldsPlayers' = field
             /\ audioFile' = file
             /\ fsFiles' = IF file = NoFile THEN {} ELSE {file.filepath}
             /\ IF playerNames = <<>>
                THEN /\ SetEm(sendError(Em, <<"At least one player name is required">>))
                     /\ pc' = "done"
                     /\ UNCHANGED <<players, readablePath, thrown>>
                ELSE IF trimThrows(playerNames)
                THEN /\ thrown' = ERR_TRIM
                     /\ SetEm(catchError(Em, ERR_TRIM))
                     /\ pc' = "done"
                     /\ UNCHANGED <<players, readablePath>>
                ELSE IF cleaned = <<>>
                THEN /\ SetEm(sendError(Em, <<"Player names cannot be empty">>))
                     /\ pc' = "done"
                     /\ UNCHANGED <<players, readablePath, thrown>>
                ELSE IF file = NoFile
                THEN /\ players' = cleaned
                     /\ SetEm(sendError(Em, <<"Audio file is required">>))
                     /\ pc' = "done"
                     /\ UNCHANGED <<readablePath, thrown>>
                ELSE /\ players' = cleaned
                     /\ SetEm(sendProgress(Em, <<"Preparing audio for transcription">>))
                     /\ IF keepsPath(file)
                        THEN readablePath' = file.filepath /\ pc' = "stat"
                        ELSE readablePath' = readablePath /\ pc' = "rename"
                     /\ UNCHANGED thrown
    /\ UNCHANGED <<reqVars, clientVars, unlinkFailures, httpVars, extEnded,
                   unlinks, transcriptText, callVars, content, parsed>>

\* fsPromises.rename(file.filepath, newPath) returns or fails
RenameReturn ==
    /\ pc = "rename"
    /\ \E ok \in BOOLEAN :
         IF ok
         THEN /\ fsFiles' = (fsFiles \ {audioFile.filepath}) \cup {newPathOf(audioFile)}
              /\ readablePath' = newPathOf(audioFile)
              /\ pc' = "stat"
         ELSE /\ pc' = "copyFile"
              /\ UNCHANGED <<fsFiles, readablePath>>
    /\ UNCHANGED <<reqVars, clientVars, fieldsPlayers, unlinkFailures,
                   httpVars, emVars, extEnded, unlinks, audioFile, players,
                   transcriptText, thrown, callVars, content, parsed>>

\* fsPromises.copyFile(file.filepath, newPath) returns or fails
CopyFileReturn ==
    /\ pc = "copyFile"
    /\ \E ok \in BOOLEAN :
         IF ok
         THEN /\ fsFiles' = fsFiles \cup {newPathOf(audioFile)}
              /\ pc' = "unlinkOriginal"
              /\ UNCHANGED <<emVars, thrown>>
         ELSE /\ thrown' = ERR_COPY
              /\ SetEm(catchError(Em, ERR_COPY))
              /\ pc' = "done"
              /\ UNCHANGED fsFiles
    /\ UNCHANGED <<reqVars, clientVars, fieldsPlayers, unlinkFailures,
                   httpVars, extEnded, unlinks, audioFile, players,
                   readablePath, transcriptText, callVars, content, parsed>>

\* fsPromises.unlink(file.filepath).catch(() => undefined) settles
UnlinkOriginalReturn ==
    /\ pc = "unlinkOriginal"
    /\ \E ok \in BOOLEAN :
         IF ok /\ audioFile.filepath \in fsFiles
         THEN /\ fsFiles' = fsFiles \ {audioFile.filepath}
              /\ unlinks' = Append(unlinks, audioFile.filepath)
              /\ UNCHANGED unlinkFailures
         ELSE /\ unlinkFailures' = Append(unlinkFailures, audioFile.filepath)
              /\ UNCHANGED <<fsFiles, unlinks>>
    /\ readablePath' = newPathOf(audioFile)
    /\ pc' = "stat"
    /\ UNCHANGED <<reqVars, clientVars, fieldsPlayers, httpVars, emVars,
                   extEnded, audioFile, players, transcriptText, thrown,
                   callVars, content, parsed>>

statsSizeIsZero_Never(file) == FALSE

\* stats.size === 0 : the stored file has the size of the upload
statsSizeIsZero(file) == file.size = 0

\* fsPromises.stat(readablePath) returns or fails; the size check
StatReturn ==
    /\ pc = "stat"
    /\ \E ok \in BOOLEAN :
         IF ~ok \/ readablePath \notin fsFiles
         THEN /\ thrown' = ERR_STAT
              /\ pc' = "unlink"
              /\ UNCHANGED emVars
         ELSE IF statsSizeIsZero(audioFile)
         THEN /\ thrown' = ERR_EMPTY_FILE
              /\ pc' = "unlink"
              /\ UNCHANGED emVars
         ELSE /\ SetEm(sendProgress(Em, <<"Transcribing audio - this may take a while">>))
              /\ pc' = "toFile"
              /\ UNCHANGED thrown
    /\ UNCHANGED <<reqVars, clientVars, fieldsPlayers, unlinkFailures,
                   httpVars, extEnded, fsVars, audioFile, players,
                   readablePath, transcriptText, callVars, content, parsed>>

\* toFile(fs.createReadStream(readablePath), uploadFileName) returns or fails;
\* on success openai.audio.transcriptions.create is called
ToFileReturn ==
    /\ pc = "toFile"
    /\ \E ok \in BOOLEAN :
         IF ok
         THEN /\ transcribeCalls' = transcribeCalls + 1
              /\ pc' = "transcribe"
              /\ UNCHANGED thrown
         ELSE /\ thrown' = ERR_READ
              /\ pc' = "unlink"
              /\ UNCHANGED transcribeCalls
    /\ UNCHANGED <<reqVars, clientVars, fieldsPlayers, unlinkFailures,
                   httpVars, emVars, extEnded, fsVars, audioFile, players,
                   readablePath, transcriptText, completionCalls, content,
                   parsed>>

TranscriptionFail_Retry ==
    /\ pc = "transcribe"
    /\ IF transcribeCalls < 2
       THEN /\ transcribeCalls' = transcribeCalls + 1
            /\ UNCHANGED <<pc, thrown>>
       ELSE /\ thrown' = ERR_UPSTREAM
            /\ pc' = "unlink"
            /\ UNCHANGED transcribeCalls
    /\ UNCHANGED <<reqVars, clientVars, fieldsPlayers, unlinkFailures,
                   httpVars, emVars, extEnded, fsVars, audioFile, players,
                   readablePath, transcriptText, completionCalls, content,
                   parsed>>

\* the transcription call fails
TranscriptionFail ==
    /\ pc = "transcribe"
    /\ thrown' = ERR_UPSTREAM
    /\ pc' = "unlink"
    /\ UNCHANGED <<reqVars, clientVars, fieldsPlayers, unlinkFailures,
                   httpVars, emVars, extEnded, fsVars, audioFile, players,
                   readablePath, transcriptText, callVars, content, parsed>>

\* the transcription call returns a response
TranscriptionReturn ==
    /\ pc = "transcribe"
    /\ \E text \in TranscriptionTexts :
         IF ~IsString(text)
         THEN /\ thrown' = ERR_NO_TEXT
              /\ UNCHANGED <<emVars, transcriptText>>
         ELSE /\ transcriptText' = Trim(text.s)
              /\ SetEm(sendProgress(Em, <<"Transcription complete">>))
              /\ UNCHANGED thrown
    /\ pc' = "unlink"
    /\ UNCHANGED <<reqVars, clientVars, fieldsPlayers, unlinkFailures,
                   httpVars, extEnded, fsVars, audioFile, players,
                   readablePath, callVars, content, parsed>>

UnlinkReturn_NoTranscriptCheck ==
    /\ pc = "unlink"
    /\ \E ok \in BOOLEAN :
         IF ok /\ readablePath \in fsFiles
         THEN /\ fsFiles' = fsFiles \ {readablePath}
              /\ unlinks' = Append(unlinks, readablePath)
              /\ UNCHANGED unlinkFailures
         ELSE /\ unlinkFailures' = Append(unlinkFailures, readablePath)
              /\ UNCHANGED <<fsFiles, unlinks>>
    /\ IF thrown # <<>>
       THEN /\ SetEm(catchError(Em, thrown))
            /\ pc' = "done"
            /\ UNCHANGED completionCalls
       ELSE /\ SetEm(sendProgress(Em, <<"Generating player summaries">>))
            /\ completionCalls' = completionCalls + 1
            /\ pc' = "completion"
    /\ UNCHANGED <<reqVars, clientVars, fieldsPlayers, httpVars, extEnded,
                   audioFile, players, readablePath, transcriptText, thrown,
                   transcribeCalls, content, parsed>>

UnlinkReturn_Unswallowed ==
    /\ pc = "unlink"
    /\ \E ok \in BOOLEAN :
         IF ok /\ readablePath \in fsFiles
         THEN /\ fsFiles' = fsFiles \ {readablePath}
              /\ unlinks' = Append(unlinks, readablePath)
              /\ UNCHANGED <<unlinkFailures, thrown>>
              /\ IF thrown # <<>>
                 THEN /\ SetEm(catchError(Em, thrown))
                      /\ pc' = "done"
                      /\ UNCHANGED completionCalls
                 ELSE IF transcriptText = <<>>
                 THEN /\ SetEm(sendError(Em, <<"Transcription failed">>))
                      /\ pc' = "done"
                      /\ UNCHANGED completionCalls
                 ELSE /\ SetEm(sendProgress(Em, <<"Generating player summaries">>))
                      /\ completionCalls' = completionCalls + 1
                      /\ pc' = "completion"
         ELSE /\ unlinkFailures' = Append(unlinkFailures, readablePath)
              /\ thrown' = <<"ENOENT: unlink failed">>
              /\ SetEm(catchError(Em, <<"ENOENT: unlink failed">>))
              /\ pc' = "done"
              /\ UNCHANGED <<fsFiles, unlinks, completionCalls>>
    /\ UNCHANGED <<reqVars, clientVars, fieldsPlayers, httpVars, extEnded,
                   audioFile, players, readablePath, transcriptText,
                   transcribeCalls, content, parsed>>

\* finally: fsPromises.unlink(readablePath).catch(() => undefined) settles; then
\* the pending error reaches the catch clause, or the summary stage begins
UnlinkReturn ==
    /\ pc = "unlink"
    /\ \E ok \in BOOLEAN :
         IF ok /\ readablePath \in fsFiles
         THEN /\ fsFiles' = fsFiles \ {readablePath}
              /\ unlinks' = Append(unlinks, readablePath)
              /\ UNCHANGED unlinkFailures
         ELSE /\ unlinkFailures' = Append(unlinkFailures, readablePath)
              /\ UNCHANGED <<fsFiles, unlinks>>
    /\ IF thrown # <<>>
       THEN /\ SetEm(catchError(Em, thrown))
            /\ pc' = "done"
            /\ UNCHANGED completionCalls
       ELSE IF transcriptText = <<>>
       THEN /\ SetEm(sendError(Em, <<"Transcription failed">>))
            /\ pc' = "done"
            /\ UNCHANGED completionCalls
       ELSE /\ SetEm(sendProgress(Em, <<"Generating player summaries">>))
            /\ completionCalls' = completionCalls + 1
            /\ pc' = "completion"
    /\ UNCHANGED <<reqVars, clientVars, fieldsPlayers, httpVars, extEnded,
                   audioFile, players, readablePath, transcriptText, thrown,
                   transcribeCalls, content, parsed>>

\* the completion call fails
CompletionFail ==
    /\ pc = "completion"
    /\ thrown' = ERR_UPSTREAM
    /\ SetEm(catchError(Em, ERR_UPSTREAM))
    /\ pc' = "done"
    /\ UNCHANGED <<reqVars, clientVars, fieldsPlayers, unlinkFailures,
                   httpVars, extEnded, fsVars, audioFile, players,
                   readablePath, transcriptText, callVars, content, parsed>>

\* the completion call returns: content check, parseSummaries, result frame
CompletionReturn ==
    /\ pc = "completion"
    /\ \E c \in HandlerContents :
         /\ content' = c
         /\ IF Falsy(c)
            THEN /\ SetEm(sendError(Em, <<"No summary returned by model">>))
                 /\ UNCHANGED <<parsed, thrown>>
            ELSE LET r == parseSummaries(c, players)
                 IN  /\ parsed' = r
                     /\ IF r.threw
                        THEN /\ thrown' = <<"TypeError">>
                             /\ SetEm(catchError(Em, <<"TypeError">>))
                        ELSE /\ SetEm(sendResult(
                                    sendProgress(Em, <<"Summaries ready">>),
                                    [transcript |-> transcriptText,
                                     dmSummary  |-> r.overallSummary,
                                     summaries  |-> r.summaries]))
                             /\ UNCHANGED thrown
    /\ pc' = "done"
    /\ UNCHANGED <<reqVars, clientVars, fieldsPlayers, unlinkFailures,
                   httpVars, extEnded, fsVars, audioFile, players,
                   readablePath, transcriptText, callVars>>

HandlerStep ==
    \/ Start
    \/ ParseMultipartReject
    \/ ParseMultipartResolve
    \/ RenameReturn
    \/ CopyFileReturn
    \/ UnlinkOriginalReturn
    \/ StatReturn
    \/ ToFileReturn
    \/ TranscriptionFail
    \/ TranscriptionReturn
    \/ UnlinkReturn
    \/ CompletionFail
    \/ CompletionReturn

Next == HandlerStep \/ ExternalEnd

Spec == Init /\ [][Next]_vars

\* every awaited step eventually returns or fails
FairSpec == Spec /\ WF_vars(HandlerStep)

-----------------------------------------------------------------------------
(* The page's handleSubmit from its fetch to its finally clause            *)
(* (src/unnamed/part_000, lines 596-714).  A body is a                      *)
(* sequence of bytes; the byte "\n" ends a line, the bytes "0xC3" "0xA9"    *)
(* are the UTF-8 encoding of the character "e_acute", every other byte is   *)
(* an ASCII character.  A JSON text is a short sequence of characters, no   *)
(* text being the beginning of another.                                     *)

MaxLines == 3     \* most newline-terminated lines of a response body

REPLACEMENT == "U+FFFD"

\* TextDecoder.decode(value, {stream: true}): the text of the bytes, and the bytes
\* of an incomplete character kept for the next call
RECURSIVE decodeBytes(_, _, _)
decodeBytes(pending, bytes, out) ==
    IF bytes = <<>> THEN [text |-> out, pending |-> pending]
    ELSE LET b == Head(bytes)
         IN  IF pending # <<>>
             THEN IF b = "0xA9"
                  THEN decodeBytes(<<>>, Tail(bytes), Append(out, "e_acute"))
                  ELSE decodeBytes(<<>>, bytes, Append(out, REPLACEMENT))
             ELSE IF b = "0xC3" THEN decodeBytes(<<b>>, Tail(bytes), out)
             ELSE IF b = "0xA9" THEN decodeBytes(<<>>, Tail(bytes), Append(out, REPLACEMENT))
             ELSE decodeBytes(<<>>, Tail(bytes), Append(out, b))

\* TextDecoder.decode(): the end of the input turns an incomplete character into U+FFFD
decodeFlush(pending) == IF pending = <<>> THEN <<>> ELSE <<REPLACEMENT>>

IsSpace(c) == c \in {" ", "\n"}

\* String.prototype.trim on a text that may hold line breaks
RECURSIVE trimSpace(_)
trimSpace(s) ==
    IF s = <<>> THEN s
    ELSE IF IsSpace(Head(s)) THEN trimSpace(Tail(s))
    ELSE IF IsSpace(s[Len(s)]) THEN trimSpace(SubSeq(s, 1, Len(s) - 1))
    ELSE s

\* a JSON object as the client reads it; an absent key is Undef
Obj(type, message, payload, err, transcript, summaries) ==
    [t |-> "obj", type |-> type, message |-> message, payload |-> payload,
     error |-> err, transcript |-> transcript, summaries |-> summaries]

SummaryResult == Obj(Undef, Undef, Undef, Undef, JStr(<<"t">>), JArr(<<>>))

ProgressEvent(message) == Obj(JStr(<<"progress">>), message, Undef, Undef, Undef, Undef)
ResultEvent(payload)   == Obj(JStr(<<"result">>), Undef, payload, Undef, Undef, Undef)
ErrorEvent(message)    == Obj(JStr(<<"error">>), message, Undef, Undef, Undef, Undef)

\* the texts that are JSON, with the value JSON.parse returns for each
JsonTexts ==
    {<< <<"{", "p", "m">>,       ProgressEvent(JStr(<<"m">>)) >>,
     << <<"{", "p", "e_acute">>, ProgressEvent(JStr(<<"e_acute">>)) >>,
     << <<"{", "q">>,            ProgressEvent(Undef) >>,
     << <<"{", "r">>,            ResultEvent(SummaryResult) >>,
     << <<"{", "e", "m">>,       ErrorEvent(JStr(<<"m">>)) >>,
     << <<"{", "e", "e_acute">>, ErrorEvent(JStr(<<"e_acute">>)) >>,
     << <<"{", "e", "0">>,       ErrorEvent(JStr(<<>>)) >>,
     << <<"{", "f">>,            ErrorEvent(Undef) >>,
     << <<"{", "j">>,            Obj(Undef, Undef, Undef, JStr(<<"bad">>), Undef, Undef) >>,
     << <<"{", "t">>,            SummaryResult >>,
     << <<"{", "o">>,            Obj(Undef, Undef, Undef, Undef, Undef, Undef) >>,
     << <<"n">>,                 JNull >>,
     << <<"7">>,                 JNum >>}

\* JSON.parse(text); NotJson when it throws
jsonParse(text) ==
    LET hits == {e \in JsonTexts : e[1] = text}
    IN  IF hits = {} THEN NotJson ELSE (CHOOSE e \in hits : TRUE)[2]

FAILED_DEFAULT == <<"Failed to process session.">>
NO_SUMMARY_RETURNED == <<"The server did not return a summary.">>
READ_FAILED == <<"network error">>

clientState ==
    <<buffered, decodedLog, encounteredError, streamResult, error, result,
      statusMessage, isLoading, cancelled>>

\* the locals of handleSubmit and the React state it sets
Cl == [buffered |-> buffered, decodedLog |-> decodedLog,
       encounteredError |-> encounteredError, streamResult |-> streamResult,
       error |-> error, result |-> result, statusMessage |-> statusMessage,
       isLoading |-> isLoading, cancelled |-> cancelled]

SetCl(c) ==
    /\ buffered' = c.buffered
    /\ decodedLog' = c.decodedLog
    /\ encounteredError' = c.encounteredError
    /\ streamResult' = c.streamResult
    /\ error' = c.error
    /\ result' = c.result
    /\ statusMessage' = c.statusMessage
    /\ isLoading' = c.isLoading
    /\ cancelled' = c.cancelled

\* the branches of processBuffer on one decoded event; stop is the return after an
\* error event
onEvent(c, event) ==
    LET type == Prop(event, "type")
        message == Prop(event, "message")
    IN  IF type = JStr(<<"progress">>) /\ ~Falsy(message)
        THEN [stop |-> FALSE, c |-> [c EXCEPT !.statusMessage = message]]
        ELSE IF type = JStr(<<"result">>)
        THEN [stop |-> FALSE,
              c |-> [c EXCEPT !.streamResult = Prop(event, "payload"),
                              !.result = Prop(event, "payload"),
                              !.statusMessage = JNull]]
        ELSE IF type = JStr(<<"error">>)
        THEN LET text == IF message.t \in {"undef", "null"} THEN JStr(FAILED_DEFAULT)
                         ELSE message
             IN  [stop |-> TRUE,
                  c |-> [c EXCEPT !.encounteredError = text, !.error = text,
                                  !.statusMessage = JNull, !.cancelled = TRUE]]
        ELSE [stop |-> FALSE, c |-> c]

\* buffered.indexOf("\n")
newlineIndex(s) == CHOOSE i \in 1..Len(s) : s[i] = "\n" /\ \A j \in 1..(i - 1) : s[j] # "\n"

\* processBuffer: every complete line of the buffer, up to an error event
RECURSIVE processBuffer(_)
processBuffer(c) ==
    IF "\n" \notin Range(c.buffered) THEN c
    ELSE LET i     == newlineIndex(c.buffered)
             line  == trimSpace(SubSeq(c.buffered, 1, i - 1))
             c1    == [c EXCEPT !.buffered = SubSeq(c.buffered, i + 1, Len(c.buffered))]
             event == jsonParse(line)
         IN  IF line = <<>> THEN processBuffer(c1)
             ELSE IF event = NotJson \/ event = JNull THEN processBuffer(c1)
             ELSE LET r == onEvent([c1 EXCEPT !.decodedLog = Append(@, event)], event)
                  IN  IF r.stop THEN r.c ELSE processBuffer(r.c)

appendChunk_Replace(buffer, text) == text

\* buffered += text
appendChunk(buffer, text) == buffer \o text

leftoverFallback_Skipped(c) == c

\* the fallback on what is left in the buffer when no result event was seen
leftoverFallback(c) ==
    LET leftover == trimSpace(c.buffered)
        fallback == jsonParse(leftover)
    IN  IF ~Falsy(c.streamResult) \/ leftover = <<>> \/ fallback.t # "obj" THEN c
        ELSE IF IsString(fallback.error)
        THEN [c EXCEPT !.encounteredError = fallback.error, !.error = fallback.error,
                       !.statusMessage = JNull]
        ELSE IF fallback.transcript # Undef /\ IsArray(fallback.summaries)
        THEN [c EXCEPT !.streamResult = fallback, !.result = fallback,
                       !.statusMessage = JNull]
        ELSE c

afterLoop_NoThrow(c) ==
    [leftoverFallback(c) EXCEPT !.isLoading = FALSE, !.statusMessage = JNull]

\* the statements after the read loop, with the catch and finally clauses
afterLoop(c) ==
    LET c1 == leftoverFallback(c)
        c2 == IF Falsy(c1.encounteredError) /\ Falsy(c1.streamResult)
              THEN [c1 EXCEPT !.error = JStr(NO_SUMMARY_RETURNED)]
              ELSE c1
    IN  [c2 EXCEPT !.isLoading = FALSE, !.statusMessage = JNull]

\* the bodies given to the client: lines, and a last text without a line break
LineBytes ==
    {<<"{", "p", "m">>, <<"{", "p", "0xC3", "0xA9">>, <<"{", "r">>,
     <<"{", "e", "m">>, <<"{", "e", "0">>, <<"x", "x">>, <<>>}

TailBytes == {<<>>, <<"{", "j">>, <<"{", "t">>, <<"{", "p", "m">>}

RECURSIVE joinLines(_)
joinLines(lines) ==
    IF lines = <<>> THEN <<>> ELSE Head(lines) \o <<"\n">> \o joinLines(Tail(lines))

Bodies ==
    {joinLines(lines) \o tail : lines \in SeqsUpTo(LineBytes, MaxLines), tail \in TailBytes}

serverVars ==
    <<method, hasKey, status, jsonBody, allowHeader, frames, responseEnded,
      writableEnded, endCalls, extEnded, terminalRun, fsFiles, unlinks, audioFile,
      players, readablePath, transcriptText, thrown, transcribeCalls, completionCalls,
      content, parsed, fieldsPlayers, unlinkFailures>>

\* handleSubmit has set its state (lines 587-590) and awaits fetch; the reader's
\* and the decoder's state is that of their construction
InitClient ==
    /\ Idle
    /\ method = "POST"
    /\ hasKey = TRUE
    /\ players = <<>>
    /\ content = Undef
    /\ parsed = NoParsed
    /\ pc = "fetch"
    /\ sent \in Bodies
    /\ wire = sent
    /\ cancelled = FALSE
    /\ decoderPending = <<>>
    /\ buffered = <<>>
    /\ decodedLog = <<>>
    /\ encounteredError = JNull
    /\ streamResult = JNull
    /\ error = JNull
    /\ result = JNull
    /\ statusMessage = JStr(<<"Uploading audio...">>)
    /\ isLoading = TRUE

FETCH_FAILED == <<"Failed to fetch">>
UNEXPECTED == <<"An unexpected error occurred.">>

\* what response.json() returns for a response without a stream
JsonPayloads == {jsonParse(<<"{", "j">>), jsonParse(<<"{", "t">>), jsonParse(<<"{", "o">>)}

\* fetch resolves with a response whose body gives a reader
FetchResolves ==
    /\ pc = "fetch"
    /\ pc' = "read"
    /\ UNCHANGED <<sent, wire, decoderPending, clientState, serverVars>>

\* fetch rejects: the catch and finally clauses
FetchRejects ==
    /\ pc = "fetch"
    /\ SetCl([Cl EXCEPT !.error = JStr(FETCH_FAILED), !.isLoading = FALSE,
                        !.statusMessage = JNull])
    /\ pc' = "fetch_failed"
    /\ UNCHANGED <<sent, wire, decoderPending, serverVars>>

\* fetch resolves with a response without a body: response.json() decides
NoReader ==
    /\ pc = "fetch"
    /\ \E ok \in BOOLEAN : \E payload \in JsonPayloads :
         IF ~ok
         THEN SetCl([Cl EXCEPT
                  !.error = IF Falsy(payload.error) THEN JStr(UNEXPECTED)
                            ELSE payload.error,
                  !.isLoading = FALSE, !.statusMessage = JNull])
         ELSE SetCl([Cl EXCEPT !.result = payload, !.isLoading = FALSE,
                               !.statusMessage = JNull])
    /\ pc' = "no_stream"
    /\ UNCHANGED <<sent, wire, decoderPending, serverVars>>

\* reader.read() returns a chunk: any non-empty prefix of the bytes not yet read
ReadChunk ==
    /\ pc = "read"
    /\ ~cancelled
    /\ \E n \in 1..Len(wire) :
         LET d == decodeBytes(decoderPending, SubSeq(wire, 1, n), <<>>)
             c == processBuffer([Cl EXCEPT !.buffered = appendChunk(@, d.text)])
         IN  /\ wire' = SubSeq(wire, n + 1, Len(wire))
             /\ decoderPending' = d.pending
             /\ IF ~Falsy(c.encounteredError)
                THEN SetCl(afterLoop(c)) /\ pc' = "settled"
                ELSE SetCl(c) /\ pc' = "read"
    /\ UNCHANGED <<sent, serverVars>>

\* reader.read() returns done: the body has ended or the reader was cancelled
ReadDone ==
    /\ pc = "read"
    /\ wire = <<>> \/ cancelled
    /\ LET c == processBuffer([Cl EXCEPT
                    !.buffered = appendChunk(@, decodeFlush(decoderPending))])
       IN  SetCl(afterLoop(c))
    /\ decoderPending' = <<>>
    /\ pc' = "settled"
    /\ UNCHANGED <<sent, wire, serverVars>>

\* reader.read() rejects: the catch and finally clauses
ReadFails ==
    /\ pc = "read"
    /\ ~cancelled
    /\ SetCl([Cl EXCEPT !.error = JStr(READ_FAILED), !.isLoading = FALSE,
                        !.statusMessage = JNull])
    /\ pc' = "read_failed"
    /\ UNCHANGED <<sent, wire, decoderPending, serverVars>>

NextClient ==
    \/ FetchResolves
    \/ FetchRejects
    \/ NoReader
    \/ ReadChunk
    \/ ReadDone
    \/ ReadFails

SpecClient == InitClient /\ [][NextClient]_vars

-----------------------------------------------------------------------------
(* Vocabulary of the properties of parseSummaries *)

Returned == pc = "parse_ret"

Summaries == parsed.summaries

EntriesNamed(n) == {j \in 1..Len(Summaries) : Summaries[j].name = n}

\* the completion text decodes to an object whose players is an array of non-null values
WellFormedOutput ==
    /\ content.t = "obj"
    /\ content.players.t = "arr"
    /\ \A i \in 1..Len(content.players.items) : content.players.items[i].t # "null"

\* not JSON, or no players array
InvalidOutput ==
    \/ content.t \in {"notjson", "empty"}
    \/ content.t # "obj"
    \/ content.players.t # "arr"

Items == content.players.items

\* entries with a string name and an array of points
Supplied ==
    {i \in 1..Len(Items) :
        /\ Items[i].t = "obj"
        /\ Items[i].name.t = "str"
        /\ Items[i].points.t = "arr"}

\* the string points with content, stripped of surrounding whitespace, in order
RECURSIVE CleanPoints(_)
CleanPoints(ps) ==
    IF ps = <<>> THEN <<>>
    ELSE LET h == Head(ps)
         IN  (IF h.t = "str" /\ TrimEnd(TrimStart(h.s)) # <<>>
              THEN <<TrimEnd(TrimStart(h.s))>> ELSE <<>>) \o CleanPoints(Tail(ps))

\* roster names without a supplied entry
Omitted == {n \in Range(players) : \A i \in Supplied : Items[i].name.s # n}

AllPointsValid(e) ==
    \A k \in 1..Len(e.points.items) :
        e.points.items[k].t = "str" /\ TrimEnd(TrimStart(e.points.items[k].s)) # <<>>

\* every roster name has one entry in the output, and that entry is valid
EveryNameSupplied ==
    \A n \in Range(players) :
        /\ Cardinality({i \in 1..Len(Items) :
                          Items[i].t = "obj" /\ Items[i].name = JStr(n)}) = 1
        /\ \E i \in Supplied : Items[i].name.s = n /\ AllPointsValid(Items[i])

-----------------------------------------------------------------------------
(* Vocabulary of the properties of the response stream and the temp file *)

IsTerminal(frame) == frame.type \in {"result", "error"}

TerminalFrames == {i \in 1..Len(frames) : IsTerminal(frames[i])}

Streaming == status = 200

Done == pc = "done"

\* the paths under which the upload can exist
UploadPaths == {audioFile.filepath, newPathOf(audioFile)}

-----------------------------------------------------------------------------
(* C1: the frames written to the response hold at most one result or error  *)
(* frame, and when one is written it is the last frame written.            *)
C1_TerminalFrameLast ==
    /\ Cardinality(TerminalFrames) <= 1
    /\ \A i \in TerminalFrames : i = Len(frames)

C1_Witness ==
    /\ terminalRun
    /\ Len(frames) = MaxCalls
    /\ frames[1].type = "progress"
    /\ frames[MaxCalls].type = "error"

(* C2: once sendError or sendResult has run, no later call writes a frame;  *)
(* res.end() is called at most once, and never on a transport that was      *)
(* ended from outside.                                                     *)
C2_WritesAfterTerminalAreNoOps ==
    [][/\ terminalRun => frames' = frames
       /\ endCalls' <= 1
       /\ extEnded => endCalls' = endCalls]_vars

C2_Witness ==
    /\ extEnded
    /\ terminalRun
    /\ endCalls = 0
    /\ Len(frames) > 0
    /\ TerminalFrames = {}

(* C3: a request that entered streaming mode eventually completes with its  *)
(* response ended, and unless the transport was ended from outside exactly  *)
(* one terminal line was written before it ended.                          *)
C3_EventuallyEndedWithTerminal ==
    /\ Streaming ~> Done
    /\ [](Done => writableEnded)
    /\ []((Done /\ Streaming /\ ~extEnded) =>
            /\ Cardinality(TerminalFrames) = 1
            /\ endCalls = 1
            /\ IsTerminal(frames[Len(frames)]))

C3_Witness ==
    /\ Done /\ Streaming /\ ~extEnded
    /\ writableEnded
    /\ frames[Len(frames)].type = "result"
    /\ Len(frames) = 7

(* C10: when the multipart body yielded an uploaded temp file, then at the  *)
(* completion of the request the file exists under neither of its paths    *)
(* and was deleted exactly once, whatever the outcome.                     *)
C10_TempFileDeleted ==
    (Done /\ audioFile # NoFile) =>
        /\ fsFiles \cap UploadPaths = {}
        /\ unlinks # <<>>
        /\ \A i, j \in 1..Len(unlinks) : unlinks[i] = unlinks[j] => i = j

-----------------------------------------------------------------------------
(* C4: the summaries returned by parseSummaries hold exactly one entry for  *)
(* each roster name, whatever the roster and the model output.             *)
C4_OneEntryPerRosterName ==
    Returned => \A n \in Range(players) : Cardinality(EntriesNamed(n)) = 1

(* C5: no entry of the returned summaries has a name outside the roster.   *)
C5_NoNameOutsideRoster ==
    Returned => \A j \in 1..Len(Summaries) : Summaries[j].name \in Range(players)

(* C6: parseSummaries is total: for every completion text and roster it     *)
(* returns an {overallSummary, summaries} pair and raises nothing.         *)
C6_ParseTotal ==
    Returned =>
        /\ parsed.threw = FALSE
        /\ parsed.overallSummary # <<>>
        /\ \A j \in 1..Len(Summaries) :
               /\ DOMAIN Summaries[j] = {"name", "points"}
               /\ \A k \in 1..Len(Summaries[j].points) :
                      /\ Summaries[j].points[k] # <<>>
                      /\ Head(Summaries[j].points[k]) # " "

C6_Witness ==
    /\ Returned
    /\ content.t = "obj" /\ content.players.t = "arr"
    /\ \E i \in 1..Len(Items) : Items[i].t = "null"
    /\ parsed.overallSummary = NOT_PARSED
    /\ Len(Summaries) = Len(players)

(* C7: for a model output that is not JSON or has no players array, the     *)
(* result is the fixed overall summary and exactly one fixed entry per      *)
(* distinct roster name, also when the roster holds a name twice.          *)
C7_FallbackOnePerDistinctName ==
    (Returned /\ InvalidOutput) =>
        /\ parsed.threw = FALSE
        /\ parsed.overallSummary = NOT_PARSED
        /\ Len(Summaries) = Cardinality(Range(players))
        /\ \A n \in Range(players) :
               /\ Cardinality(EntriesNamed(n)) = 1
               /\ \A j \in EntriesNamed(n) : Summaries[j].points = <<NOT_PARSED>>

(* C8: for a well-formed output that omits the roster names M, the result   *)
(* holds a placeholder entry for every name of M and the supplied entries   *)
(* of the other roster names with their trimmed, non-empty points.         *)
C8_OmittedGetPlaceholder ==
    (Returned /\ WellFormedOutput) =>
        /\ \A n \in Omitted :
               \E j \in EntriesNamed(n) : Summaries[j].points = <<NO_SUMMARY>>
        /\ \A i \in Supplied :
               Items[i].name.s \in Range(players) =>
                   \E j \in EntriesNamed(Items[i].name.s) :
                       Summaries[j].points = CleanPoints(Items[i].points.items)

C8_Witness ==
    /\ Returned /\ WellFormedOutput
    /\ players = <<<<"a">>, <<"b">>>>
    /\ Omitted = {<<"b">>}
    /\ \E i \in Supplied :
           /\ Items[i].name.s = <<"a">>
           /\ Items[i].points.items = <<JStr(<<"y">>), JStr(<<" ", "x", " ">>)>>
    /\ Len(Summaries) = 2
    /\ Summaries[1].points = << <<"y">>, <<"x">> >>
    /\ Summaries[2] = [name |-> <<"b">>, points |-> <<NO_SUMMARY>>]

-----------------------------------------------------------------------------
(* Vocabulary of the properties of the failure paths of the handler *)

LastFrame == frames[Len(frames)]

\* the request ended with exactly one terminal frame, an error frame with this message
EndedWithError(message) ==
    /\ frames # <<>>
    /\ LastFrame = ErrorFrame(message)
    /\ Cardinality(TerminalFrames) = 1
    /\ writableEnded

HasResultFrame == \E i \in 1..Len(frames) : frames[i].type = "result"

FailedBeforeCompletion ==
    \/ thrown \in {ERR_UPLOAD, ERR_TRIM, ERR_COPY, ERR_STAT, ERR_EMPTY_FILE, ERR_READ,
                   ERR_NO_TEXT}
    \/ thrown = ERR_UPSTREAM /\ transcriptText = <<>>
    \/ Done /\ (players = <<>> \/ audioFile = NoFile \/ transcriptText = <<>>)

\* a stage before the transcription call failed or rejected the request
FailedBeforeTranscription ==
    \/ thrown \in {ERR_UPLOAD, ERR_TRIM, ERR_COPY, ERR_STAT, ERR_EMPTY_FILE, ERR_READ}
    \/ Done /\ (players = <<>> \/ audioFile = NoFile)

\* the completion call failed or returned no content
CompletionFailed == Done /\ completionCalls > 0 /\ Falsy(content)

\* the streamed request ended without a parsed summary
RequestFailed == Done /\ Streaming /\ parsed = NoParsed

(* C12: the first failure short-circuits the later stages.  After a failure *)
(* of ingestion, roster validation, audio validation, extension resolution  *)
(* or transcription, or with an empty trimmed transcript, the completion    *)
(* model is never invoked (and the transcription service is never called    *)
(* after a failure that precedes it); after a failed completion call or an  *)
(* empty content parseSummaries is never called and no result frame is      *)
(* written; a failed request has exactly one terminal frame, an error frame *)
(* written last (when the client has not gone away).                        *)
C12_FirstFailureShortCircuits ==
    /\ FailedBeforeTranscription => transcribeCalls = 0
    /\ FailedBeforeCompletion =>
          completionCalls = 0 /\ parsed = NoParsed /\ ~HasResultFrame
    /\ CompletionFailed => parsed = NoParsed /\ ~HasResultFrame
    /\ completionCalls > 0 =>
          /\ players # <<>> /\ audioFile # NoFile /\ readablePath # <<>>
          /\ transcribeCalls = 1 /\ transcriptText # <<>>
          /\ pc = "completion" => thrown = <<>>
    /\ transcribeCalls > 0 => players # <<>> /\ audioFile # NoFile /\ audioFile.size > 0
    /\ (RequestFailed /\ ~extEnded) =>
          /\ Cardinality(TerminalFrames) = 1
          /\ LastFrame.type = "error"
          /\ endCalls = 1

C12_Witness ==
    /\ Done
    /\ transcribeCalls = 1
    /\ transcriptText = <<>>
    /\ thrown = <<>>
    /\ completionCalls = 0
    /\ EndedWithError(<<"Transcription failed">>)

\* ingestion, the roster or the audio part rejected a POST request that has a credential
ValidationFailed ==
    /\ Done
    /\ method = "POST" /\ hasKey
    /\ \/ thrown = ERR_UPLOAD
       \/ thrown = <<>> /\ players = <<>>
       \/ audioFile = NoFile

(* C13: every validation failure of the streaming handler (a multipart body *)
(* that cannot be decoded or is too large, a missing or empty roster, a     *)
(* missing audio part) is answered before the stream starts, with status    *)
(* 400 and a non-streamed JSON body {error}, and no frame has been written. *)
C13_ValidationAnsweredBeforeStream ==
    ValidationFailed => status = 400 /\ jsonBody # <<>> /\ frames = <<>>

(* C14: a request that is not a POST is answered with 405, Allow: POST and  *)
(* a JSON error body; a POST without the service credential is answered     *)
(* with 500 and a JSON error body; in both cases parseMultipart is never    *)
(* called, no frame is written and no external service is called.           *)
C14_MethodAndCredentialAnsweredBeforeIngestion ==
    /\ (method # "POST" \/ ~hasKey) =>
          /\ pc \in {"start", "done"}
          /\ frames = <<>>
          /\ fieldsPlayers = Undef /\ audioFile = NoFile /\ fsFiles = {}
          /\ transcribeCalls = 0 /\ completionCalls = 0
          /\ endCalls = 0
    /\ (Done /\ method # "POST") =>
          /\ status = 405
          /\ allowHeader = <<"POST">>
          /\ jsonBody = <<"Method not allowed">>
          /\ writableEnded
    /\ (Done /\ method = "POST" /\ ~hasKey) =>
          /\ status = 500
          /\ allowHeader = <<>>
          /\ jsonBody = <<"OPENAI_KEY is not configured">>
          /\ writableEnded

C14_Witness ==
    /\ Done
    /\ method = "POST" /\ ~hasKey
    /\ status = 500
    /\ jsonBody # <<>>
    /\ frames = <<>>

-----------------------------------------------------------------------------
(* Vocabulary of the properties of the roster *)

\* the strings of the players field, in submission order
SubmittedStrings ==
    IF fieldsPlayers.t = "arr" THEN fieldsPlayers.items
    ELSE IF fieldsPlayers.t = "str" THEN <<fieldsPlayers>>
    ELSE <<>>

\* each string replaced by the array it decodes to, or taken as one name; flattened
RECURSIVE Flattened(_)
Flattened(strings) ==
    IF strings = <<>> THEN <<>>
    ELSE LET last == strings[Len(strings)]
             rest == Flattened(SubSeq(strings, 1, Len(strings) - 1))
         IN  IF last.json.t = "arr" THEN rest \o last.json.items
             ELSE Append(rest, [t |-> "str", s |-> last.s])

SubmittedNames == Flattened(SubmittedStrings)

AllNamesAreStrings == \A i \in 1..Len(SubmittedNames) : SubmittedNames[i].t = "str"

\* the submitted names without surrounding whitespace, the blank ones left out
RECURSIVE Stripped(_)
Stripped(names) ==
    IF names = <<>> THEN <<>>
    ELSE LET n == TrimEnd(TrimStart(Head(names).s))
         IN  (IF n = <<>> THEN <<>> ELSE <<n>>) \o Stripped(Tail(names))

\* parseMultipart has resolved and the roster has been looked at
RosterSeen ==
    pc \notin {"start", "parseMultipart"} /\ method = "POST" /\ hasKey /\ thrown # ERR_UPLOAD

NoLaterStageRan ==
    /\ Done
    /\ readablePath = <<>>
    /\ unlinks = <<>>
    /\ transcribeCalls = 0
    /\ completionCalls = 0
    /\ parsed = NoParsed

(* C16: roster normalization.  Each string of the players field is replaced *)
(* by the array it decodes to, or counts as one name; the names are         *)
(* flattened, trimmed and the empty ones dropped, so the roster handed to   *)
(* the later stages holds only non-empty trimmed strings, in submission     *)
(* order; when no name remains the request is rejected with the validation  *)
(* message and no later stage runs.                                         *)
C16_RosterNormalized ==
    /\ players # <<>> =>
          /\ AllNamesAreStrings
          /\ players = Stripped(SubmittedNames)
          /\ \A i \in 1..Len(players) :
                players[i] # <<>> /\ Head(players[i]) # " "
                    /\ players[i][Len(players[i])] # " "
    /\ (RosterSeen /\ AllNamesAreStrings /\ Stripped(SubmittedNames) # <<>>) =>
          players = Stripped(SubmittedNames)
    /\ (RosterSeen /\ AllNamesAreStrings /\ Stripped(SubmittedNames) = <<>>) =>
          /\ players = <<>>
          /\ NoLaterStageRan
          /\ ~extEnded =>
                EndedWithError(IF SubmittedNames = <<>>
                               THEN <<"At least one player name is required">>
                               ELSE <<"Player names cannot be empty">>)
    /\ (RosterSeen /\ ~AllNamesAreStrings) => players = <<>> /\ NoLaterStageRan

C16_Witness ==
    /\ Len(SubmittedStrings) = 2
    /\ SubmittedNames = <<JStr(<<"b">>), JStr(<<" ", "a">>)>>
    /\ players = << <<"b">>, <<"a">> >>
    /\ pc = "transcribe"

-----------------------------------------------------------------------------
(* Vocabulary of the properties of the extension resolver *)

\* the text after the last dot of the original filename, <<>> without a dot
LastSuffix(file) ==
    LET name == file.originalFilename
    IN  IF name.t # "str" THEN <<>>
        ELSE IF \A i \in 1..Len(name.s) : name.s[i] # "." THEN <<>>
        ELSE LET d == CHOOSE i \in 1..Len(name.s) :
                          name.s[i] = "." /\ \A j \in (i + 1)..Len(name.s) : name.s[j] # "."
             IN  SubSeq(name.s, d + 1, Len(name.s))

NameGivesExtension(file) ==
    LastSuffix(file) # <<>> /\ \A k \in 1..Len(LastSuffix(file)) : IsAlnum(LastSuffix(file)[k])

\* the entries of the fixed table for the declared MIME type, whatever its case
MimeHits(file) ==
    IF file.mimetype.t # "str" THEN {}
    ELSE {e \in MimeMap : e[1] = toLowerCase(file.mimetype.s)}

ExpectedExtensionOf(file) ==
    IF NameGivesExtension(file) THEN toLowerCase(LastSuffix(file))
    ELSE IF MimeHits(file) # {} THEN (CHOOSE e \in MimeHits(file) : TRUE)[2]
    ELSE <<>>

PathHasExtensionOf(file) ==
    LET path == file.filepath
        tail == <<".">> \o ExpectedExtensionOf(file)
    IN  /\ Len(tail) <= Len(path)
        /\ toLowerCase(SubSeq(path, Len(path) - Len(tail) + 1, Len(path))) = tail

\* what is expected of the resolver for every upload of the explored inputs
Expectations ==
    {[file |-> file,
      extension |-> ExpectedExtensionOf(file),
      pathHasIt |-> PathHasExtensionOf(file),
      fromName  |-> NameGivesExtension(file)] : file \in AudioFiles}

Expected == CHOOSE e \in Expectations : e.file = audioFile

\* the handler has called ensureExtensionOnPath
ResolverCalled ==
    pc \notin {"start", "parseMultipart"} /\ audioFile # NoFile /\ players # <<>>

(* C17: the extension resolver takes the lower-cased alphanumeric suffix    *)
(* after the last dot of the original filename when there is one ("v.MP3"   *)
(* gives mp3 whatever the MIME type), else the fixed-table extension of the *)
(* declared MIME type matched without regard to case, else none; without an *)
(* extension the temp path is returned as it is, nothing on disk is touched *)
(* and the pipeline goes on to the transcription stage.                     *)
C17_ExtensionPriority ==
    ResolverCalled =>
        LET extension == Expected.extension
            pathHasIt == Expected.pathHasIt
        IN  /\ (audioFile.originalFilename = JStr(<<"v", ".", "M", "P", "3">>)) =>
                  extension = <<"m", "p", "3">>
            /\ (~Expected.fromName
                    /\ audioFile.mimetype = JStr(<<"A","u","d","i","o","/","W","A","V">>)) =>
                  extension = <<"w", "a", "v">>
            /\ (extension # <<>> /\ ~pathHasIt) =>
                  /\ readablePath \in {<<>>, audioFile.filepath \o <<".">> \o extension}
                  /\ readablePath = <<>> <=>
                        (pc \in {"rename", "copyFile", "unlinkOriginal"} \/ thrown = ERR_COPY)
            /\ (extension # <<>> /\ pathHasIt) => readablePath = audioFile.filepath
            /\ extension = <<>> =>
                  /\ readablePath = audioFile.filepath
                  /\ pc \in {"stat", "toFile", "transcribe", "unlink", "completion", "done"}
                  /\ thrown # ERR_COPY
                  /\ pc \in {"stat", "toFile", "transcribe"} =>
                        fsFiles = {audioFile.filepath} /\ unlinks = <<>>
                            /\ unlinkFailures = <<>>

C17_Witness ==
    /\ audioFile.originalFilename = JStr(<<"v", ".", "M", "P", "3">>)
    /\ audioFile.mimetype = JStr(<<"A","u","d","i","o","/","W","A","V">>)
    /\ readablePath = <<"u", ".", "m", "p", "3">>
    /\ pc = "transcribe"

C17_WitnessNoExtension ==
    /\ audioFile # NoFile
    /\ Expected.extension = <<>>
    /\ readablePath = audioFile.filepath
    /\ thrown = <<>>
    /\ pc = "transcribe"

-----------------------------------------------------------------------------
(* Vocabulary of the properties of the parsed summary *)

\* parseSummaries has returned, in the handler or in its harness
Parsed == parsed # NoParsed

\* the dmSummary of the model output without surrounding whitespace, <<>> when it is
\* absent, not a string, empty or blank
StrippedDmSummary ==
    IF content.dmSummary.t = "str" THEN TrimEnd(TrimStart(content.dmSummary.s)) ELSE <<>>

(* C18: on the well-formed path the overall summary is the dmSummary of the *)
(* model output without its surrounding whitespace when that is a string    *)
(* with content, and otherwise exactly the fixed text "The AI response did  *)
(* not include an overall summary for the Dungeon Master."; the handler     *)
(* puts the value returned by parseSummaries unchanged into the dmSummary   *)
(* field of the result frame.                                               *)
C18_OverallSummary ==
    /\ (Parsed /\ WellFormedOutput) =>
          parsed.overallSummary =
              IF StrippedDmSummary # <<>> THEN StrippedDmSummary
              ELSE <<"The AI response did not include an overall summary for the Dungeon Master.">>
    /\ HasResultFrame =>
          /\ Parsed
          /\ LastFrame.type = "result"
          /\ LastFrame.payload.dmSummary = parsed.overallSummary

C18_Witness ==
    /\ Done
    /\ content.t = "obj"
    /\ content.dmSummary = JStr(<<"s", " ", "s", " ">>)
    /\ LastFrame.type = "result"
    /\ LastFrame.payload.dmSummary = <<"s", " ", "s">>

-----------------------------------------------------------------------------
(* Vocabulary of the properties of the kept entries *)

IsSuppliedEntry(e) == e.t = "obj" /\ e.name.t = "str" /\ e.points.t = "arr"

\* the supplied entries of the model output, in their order
KeptItems == SelectSeq(Items, IsSuppliedEntry)

NumSupplied == Len(KeptItems)

(* C19: on the well-formed path parseSummaries keeps exactly the entries    *)
(* whose name is a string and whose points is an array, in their order; a   *)
(* kept entry holds exactly its points that are strings with content after  *)
(* trimming, trimmed, in their order; an entry whose points are all dropped *)
(* is kept with an empty list, and no placeholder is added for its name.    *)
C19_KeptEntriesAndPoints ==
    (Returned /\ WellFormedOutput) =>
        LET kept == KeptItems
            n    == Len(kept)
        IN  /\ Len(Summaries) >= n
            /\ \A k \in 1..n :
                  /\ Summaries[k].name = kept[k].name.s
                  /\ Summaries[k].points = CleanPoints(kept[k].points.items)
            /\ \A j \in (n + 1)..Len(Summaries) :
                  /\ \A k \in 1..n : Summaries[j].name # kept[k].name.s
                  /\ Summaries[j].points =
                        << <<"No summary was generated for this player.">> >>

C19_Witness ==
    /\ Returned
    /\ WellFormedOutput
    /\ Len(Items) = 2
    /\ Supplied = {2}
    /\ Items[2].name.s \in Range(players)
    /\ Items[2].points.items = <<JNum, JStr(<<" ">>)>>
    /\ Summaries = <<[name |-> Items[2].name.s, points |-> <<>>]>>

(* C20: on the well-formed path a name that the roster holds twice and that *)
(* has no entry in the model output gets exactly one placeholder entry; the *)
(* number of placeholder entries equals the number of distinct roster names *)
(* without a surviving entry.                                               *)
C20_OnePlaceholderPerMissingName ==
    (Returned /\ WellFormedOutput) =>
        LET n       == NumSupplied
            omitted == Omitted
            added   == (n + 1)..Len(Summaries)
        IN  /\ Len(Summaries) = n + Cardinality(omitted)
            /\ \A name \in omitted :
                  Cardinality({j \in added : Summaries[j].name = name}) = 1
            /\ \A j \in added : Summaries[j].name \in omitted

C20_Witness ==
    /\ Returned
    /\ WellFormedOutput
    /\ players = << <<"a">>, <<"a">> >>
    /\ Omitted = {<<"a">>}
    /\ NumSupplied = 1
    /\ Len(Summaries) = 2
    /\ Summaries[2] = [name |-> <<"a">>,
                       points |-> << <<"No summary was generated for this player.">> >>]

-----------------------------------------------------------------------------
(* Vocabulary of the properties of the client's read loop *)

ProgressLines == {<<"{", "p", "m">>, <<"{", "p", "0xC3", "0xA9">>}

TerminalLines ==
    {<<"{", "r">>, <<"{", "e", "m">>, <<"{", "e", "0">>}

\* the bodies the handler can write: progress lines, then one terminal line
ServerBodies ==
    {joinLines(Append(ps, term)) :
        ps \in SeqsUpTo(ProgressLines, MaxLines - 1), term \in TerminalLines}

\* the frame each line of a server body stands for
FrameOf(line) ==
    IF line = <<"{", "p", "m">> THEN ProgressEvent(JStr(<<"m">>))
    ELSE IF line = <<"{", "p", "0xC3", "0xA9">> THEN ProgressEvent(JStr(<<"e_acute">>))
    ELSE IF line = <<"{", "r">> THEN ResultEvent(SummaryResult)
    ELSE IF line = <<"{", "e", "m">> THEN ErrorEvent(JStr(<<"m">>))
    ELSE ErrorEvent(JStr(<<>>))

\* the frames of a body, split at its line breaks
RECURSIVE FramesOf(_, _)
FramesOf(bytes, line) ==
    IF bytes = <<>> THEN <<>>
    ELSE IF Head(bytes) = "\n" THEN <<FrameOf(line)>> \o FramesOf(Tail(bytes), <<>>)
    ELSE FramesOf(Tail(bytes), Append(line, Head(bytes)))

SentFrames == FramesOf(sent, <<>>)

TerminalFrame == SentFrames[Len(SentFrames)]

\* the bytes reader.read() has returned so far
Delivered == SubSeq(sent, 1, Len(sent) - Len(wire))

LineBreaksDelivered == Cardinality({i \in 1..Len(Delivered) : Delivered[i] = "\n"})

Settled == pc = "settled"

\* the error and the result the page shows at the end for the terminal frame
ExpectedError ==
    IF TerminalFrame.type = JStr(<<"result">>) THEN JNull
    ELSE IF TerminalFrame.message = JStr(<<>>)
    THEN JStr(<<"The server did not return a summary.">>)
    ELSE TerminalFrame.message

ExpectedResult ==
    IF TerminalFrame.type = JStr(<<"result">>) THEN TerminalFrame.payload ELSE JNull

(* C15: for every body the server can write (progress lines, then one       *)
(* terminal line, each ended by a line break) the read loop decodes the     *)
(* frames of the body in their order and ends with the result or the error  *)
(* of the terminal frame, however the bytes are split into chunks; a frame  *)
(* is decoded only once its line break has been read.                       *)
C15_ChunkingDoesNotMatter ==
    /\ Len(decodedLog) <= LineBreaksDelivered
    /\ sent \in ServerBodies =>
          /\ decodedLog = SubSeq(SentFrames, 1, Len(decodedLog))
          /\ pc = "read" => Len(decodedLog) = LineBreaksDelivered
          /\ Settled =>
                /\ decodedLog = SentFrames
                /\ error = ExpectedError
                /\ result = ExpectedResult
                /\ ~isLoading
                /\ statusMessage = JNull

C15_Witness ==
    /\ sent = joinLines(<< <<"{", "p", "m">>, <<"{", "p", "0xC3", "0xA9">>, <<"{", "r">> >>)
    /\ pc = "read"
    /\ decoderPending = <<"0xC3">>
    /\ buffered = <<"{", "p">>
    /\ decodedLog = <<ProgressEvent(JStr(<<"m">>))>>
    /\ statusMessage = JStr(<<"m">>)

-----------------------------------------------------------------------------
(* Vocabulary of the properties of the temp file's deletion *)

\* the calls of fsPromises.unlink(path) that have settled, fulfilled or rejected
Attempts(path) ==
    LET IsPath(p) == p = path
    IN  Len(SelectSeq(unlinks, IsPath)) + Len(SelectSeq(unlinkFailures, IsPath))

\* ensureExtensionOnPath has returned: the try block was entered with a path
StageEntered == readablePath # <<>>

\* the try/finally of the transcription stage has completed
StageCompleted == StageEntered /\ pc \in {"completion", "done"}

\* the errors the transcription stage can throw
StageErrors == {ERR_STAT, ERR_EMPTY_FILE, ERR_READ, ERR_UPSTREAM, ERR_NO_TEXT}

(* C21: once the transcription stage has been entered with a resolved     *)
(* path, no unlink of that path is attempted while the stage runs and      *)
(* exactly one has been attempted when the stage has completed, on every   *)
(* way out of the stage; a rejected unlink is swallowed: a request with a  *)
(* transcript and no stage error has called the completion service, and a  *)
(* failed stage ends with the error frame of its own error (while the      *)
(* client stays connected).                                                 *)
C21_TempFileUnlinkedOnceAndSwallowed ==
    /\ StageEntered /\ ~StageCompleted => Attempts(readablePath) = 0
    /\ StageCompleted =>
         /\ Attempts(readablePath) = 1
         /\ readablePath \notin fsFiles \/ unlinkFailures # <<>>
         /\ thrown = <<>> /\ transcriptText # <<>> => completionCalls = 1
         /\ thrown = <<>> /\ transcriptText = <<>> /\ ~extEnded =>
                EndedWithError(<<"Transcription failed">>)
         /\ thrown # <<>> /\ completionCalls = 0 =>
                /\ thrown \in StageErrors
                /\ ~extEnded => EndedWithError(thrown)

\* a rejected unlink after a successful transcription: the summary stage began
C21_Witness ==
    /\ StageCompleted
    /\ unlinkFailures = <<readablePath>>
    /\ readablePath \in fsFiles
    /\ thrown = <<>>
    /\ pc = "completion"
    /\ completionCalls = 1

\* ensureExtensionOnPath has just returned: the stage's first await is pending
ResolverReturned == StageEntered /\ pc = "stat"

(* C22: when ensureExtensionOnPath returns with an extension resolved: a   *)
(* path that already ends with ".<ext>" (case-insensitively) is returned   *)
(* and the disk is untouched; otherwise "<path>.<ext>" is returned; in     *)
(* every case the returned path holds the upload and, when the file was    *)
(* moved, nothing is left at the original path.                            *)
C22_ResolvedPathHoldsTheOnlyCopy ==
    ResolverReturned /\ extensionOf(audioFile) # <<>> =>
        /\ readablePath \in fsFiles
        /\ IF endsWith(toLowerCase(audioFile.filepath),
                       <<".">> \o extensionOf(audioFile))
           THEN /\ readablePath = audioFile.filepath
                /\ fsFiles = {audioFile.filepath}
                /\ unlinks = <<>> /\ unlinkFailures = <<>>
           ELSE /\ readablePath = audioFile.filepath \o <<".">> \o extensionOf(audioFile)
                /\ audioFile.filepath \notin fsFiles

-----------------------------------------------------------------------------
(* Vocabulary of the properties of the order of the frames *)

\* the place of the first frame equal to this one among the frames written, 0 if none
Pos(frame) ==
    LET S == {i \in 1..Len(frames) : frames[i] = frame}
    IN  IF S = {} THEN 0 ELSE CHOOSE i \in S : \A j \in S : i <= j

Transcribing == ProgressFrame(<<"Transcribing audio - this may take a while">>)
Transcribed  == ProgressFrame(<<"Transcription complete">>)
Generating   == ProgressFrame(<<"Generating player summaries">>)
Ready        == ProgressFrame(<<"Summaries ready">>)

\* the frames of the stages up to the completion call, in their order
StageFramesInOrder ==
    /\ 0 < Pos(Transcribing)
    /\ Pos(Transcribing) < Pos(Transcribed)
    /\ Pos(Transcribed) < Pos(Generating)

\* what holds of the frames in every state
FrameOrderInv ==
    /\ transcribeCalls > 0 /\ ~extEnded => Pos(Transcribing) > 0
    /\ completionCalls > 0 /\ ~extEnded => StageFramesInOrder
    /\ HasResultFrame =>
         /\ transcribeCalls = 1 /\ completionCalls = 1
         /\ transcriptText # <<>> /\ ~Falsy(content)
         /\ Parsed /\ ~parsed.threw /\ thrown = <<>>
         /\ StageFramesInOrder
         /\ Pos(Generating) < Pos(Ready)
         /\ Pos(Ready) = Len(frames) - 1
         /\ LastFrame.type = "result"

\* what holds of the step that makes a call or writes the result frame
FrameOrderStep ==
    /\ transcribeCalls' # transcribeCalls /\ ~extEnded => Pos(Transcribing) > 0
    /\ completionCalls' # completionCalls /\ ~extEnded =>
         /\ Pos(Transcribed) > 0
         /\ frames' = Append(frames, Generating)
    /\ HasResultFrame' /\ ~HasResultFrame =>
         /\ pc = "completion"
         /\ transcribeCalls = 1 /\ completionCalls = 1
         /\ parsed = NoParsed /\ parsed' # NoParsed

(* C23: while the client stays connected, a progress frame is among the    *)
(* frames before the transcription service is called, a further one after  *)
(* a successful transcription and one more before the completion service   *)
(* is called, in this order; a result frame is written only in the step    *)
(* in which the completion call returns, after both calls were made, with  *)
(* a transcript, a content and the parser's return value; no result frame  *)
(* exists in a run where a call was not made.                              *)
C23_FramesFollowTheStages == []FrameOrderInv /\ [][FrameOrderStep]_vars

\* a run with both calls made and the result frame after the stage frames
C23_Witness ==
    /\ HasResultFrame
    /\ ~extEnded
    /\ Len(frames) = 7
    /\ Pos(Generating) = 5

-----------------------------------------------------------------------------
(* Vocabulary of the properties of the external calls *)

\* the transcription call or the completion call was rejected
CallFailed == thrown = ERR_UPSTREAM

NoFurtherCall ==
    /\ transcribeCalls' = transcribeCalls
    /\ completionCalls' = completionCalls

\* what holds of the calls in every state
NoRetryInv ==
    /\ transcribeCalls <= 1
    /\ completionCalls <= 1
    /\ CallFailed =>
         /\ transcribeCalls = 1
         /\ pc \in {"unlink", "done"}
         /\ pc = "unlink" => completionCalls = 0
         /\ ~HasResultFrame
         /\ pc = "done" /\ ~extEnded => EndedWithError(ERR_UPSTREAM)

\* what holds of every step: a rejected call is followed by the finally
\* clause and the catch clause, never by a call
NoRetryStep ==
    /\ pc \in {"transcribe", "completion"} /\ thrown' = ERR_UPSTREAM =>
         /\ NoFurtherCall
         /\ pc' = IF pc = "transcribe" THEN "unlink" ELSE "done"
    /\ CallFailed => NoFurtherCall /\ thrown' = thrown /\ pc' \in {pc, "done"}

(* C24: within one request the transcription service and the completion    *)
(* service are each called at most once; when either call is rejected no   *)
(* call follows, the next handler step (the finally clause's unlink for    *)
(* the transcription call, none for the completion call) ends the request, *)
(* and the request ends with one error frame whose message is the          *)
(* message of the thrown error (while the client stays connected).         *)
C24_NoRetries == []NoRetryInv /\ [][NoRetryStep]_vars

\* the completion call was rejected after a successful transcription
C24_Witness ==
    /\ Done /\ CallFailed
    /\ transcribeCalls = 1 /\ completionCalls = 1
    /\ ~extEnded
    /\ EndedWithError(ERR_UPSTREAM)

-----------------------------------------------------------------------------
(* Vocabulary of the properties of a client disconnect *)

\* after the transport was ended from outside nothing is written and end() is not called
SilentAfterDisconnect ==
    extEnded => /\ frames' = frames
                /\ endCalls' = endCalls
                /\ responseEnded' = responseEnded

\* the stages of a request whose client went away: the calls are made, the
\* temp file is deleted, the output of the model is parsed
PipelineInv ==
    /\ extEnded => writableEnded /\ ~responseEnded /\ endCalls = 0
    /\ pc = "transcribe" => transcribeCalls = 1
    /\ pc = "completion" => transcribeCalls = 1 /\ completionCalls = 1
    /\ Done /\ extEnded =>
         /\ ~IsTerminal(LastFrame)
         /\ StageEntered =>
              /\ Attempts(readablePath) = 1
              /\ unlinkFailures = <<>> => fsFiles = {}
         /\ StageEntered /\ thrown \notin {ERR_STAT, ERR_EMPTY_FILE, ERR_READ} =>
              transcribeCalls = 1
         /\ thrown = <<>> /\ transcriptText # <<>> =>
              /\ completionCalls = 1
              /\ ~Falsy(content) => Parsed

(* C25: when the transport is ended from outside while a stage is in       *)
(* flight, the request still runs to its end: every later step writes no   *)
(* frame and does not call end(), the transcription and completion calls   *)
(* still to come are made, the temp file is unlinked, the model output is  *)
(* parsed, and the handler finishes.                                       *)
C25_DisconnectDoesNotCancel ==
    /\ []PipelineInv
    /\ [][SilentAfterDisconnect]_vars
    /\ (extEnded ~> Done)

\* the client went away before the transcription began; both calls were made later
C25_Witness ==
    /\ Done /\ extEnded
    /\ Len(frames) = 2
    /\ transcribeCalls = 1 /\ completionCalls = 1
    /\ Parsed /\ ~parsed.threw
    /\ Attempts(readablePath) = 1
    /\ fsFiles = {}
    /\ endCalls = 0

-----------------------------------------------------------------------------
(* Vocabulary of the properties of the order of the summaries *)

\* the place where a name first occurs in the roster
FirstInRoster(name) ==
    CHOOSE i \in 1..Len(players) :
        /\ players[i] = name
        /\ \A j \in 1..(i - 1) : players[j] # name

(* C26: on the well-formed path the summaries are the surviving entries of *)
(* the model output in the order of the output, followed by the            *)
(* placeholder entries in the order in which their names first occur in    *)
(* the roster.                                                             *)
C26_SurvivorsThenPlaceholdersInRosterOrder ==
    (Returned /\ WellFormedOutput) =>
        LET kept  == KeptItems
            n     == Len(kept)
            added == (n + 1)..Len(Summaries)
        IN  /\ Len(Summaries) >= n
            /\ \A k \in 1..n : Summaries[k].name = kept[k].name.s
            /\ \A j \in added :
                  /\ Summaries[j].name \in Range(players)
                  /\ Summaries[j] = placeholder(Summaries[j].name)
            /\ \A i \in added : \A j \in added :
                  i < j => FirstInRoster(Summaries[i].name)
                             < FirstInRoster(Summaries[j].name)

\* roster ["a","b"] and a model output holding only "a": the entry of "a", then
\* the placeholder of "b"
C26_Witness ==
    /\ Returned
    /\ WellFormedOutput
    /\ players = << <<"a">>, <<"b">> >>
    /\ Len(Items) = 1
    /\ IsSuppliedEntry(Items[1])
    /\ Items[1].name.s = <<"a">>
    /\ Items[1].points.items = <<JStr(<<"y">>), JStr(<<" ", "x", " ">>)>>
    /\ Summaries = << [name |-> <<"a">>, points |-> << <<"y">>, <<"x">> >>],
                      placeholder(<<"b">>) >>

-----------------------------------------------------------------------------
(* Vocabulary of the properties of the end of a submission *)

IsErrorEvent(event)  == event.type = JStr(<<"error">>)
IsResultEvent(event) == event.type = JStr(<<"result">>)

\* an error frame has been decoded
ErrorDecoded == \E i \in 1..Len(decodedLog) : IsErrorEvent(decodedLog[i])

\* a result frame was decoded before the first error frame
ResultBeforeError ==
    \E i \in 1..Len(decodedLog) :
        /\ IsResultEvent(decodedLog[i])
        /\ \A j \in 1..i : ~IsErrorEvent(decodedLog[j])

\* what the page renders: {error && ...}, {result && ...}
Shown(value) == ~Falsy(value)

(* C27: for every body and every chunking, once an error frame has been    *)
(* decoded the client reads no further chunk and no result is set after    *)
(* it; when the submission has ended a result and an error are not both    *)
(* shown.                                                                  *)
C27_ErrorExcludesResult ==
    /\ ErrorDecoded /\ pc = "read" => cancelled
    /\ ErrorDecoded /\ ~ResultBeforeError => result = JNull
    /\ Settled => ~(Shown(result) /\ Shown(error))

\* lines that are neither a result frame nor an error frame
QuietLines == {<<"{", "p", "m">>, <<"{", "p", "0xC3", "0xA9">>, <<"x", "x">>, <<>>}

\* bodies without a result frame and without an error frame: progress lines,
\* unparseable lines, blank lines, or nothing, and an unterminated progress frame
QuietBodies ==
    {joinLines(lines) \o tail :
        lines \in SeqsUpTo(QuietLines, MaxLines),
        tail \in {<<>>, <<"{", "p", "m">>}}

\* handleSubmit has returned
Finished == pc \in {"settled", "read_failed", "fetch_failed", "no_stream"}

(* C28: when the body ends without a result frame and without an error     *)
(* frame, the submission ends with the error "The server did not return a  *)
(* summary." and no result; after every submission that sent a request the *)
(* loading flag is false and the status message is cleared.                *)
C28_NoTerminalFrameIsAnError ==
    /\ Settled /\ sent \in QuietBodies =>
          /\ error = JStr(NO_SUMMARY_RETURNED)
          /\ result = JNull
    /\ Finished => ~isLoading /\ statusMessage = JNull
    /\ ~Finished => isLoading

\* two progress frames and an unparseable line, read to the end
C28_Witness ==
    /\ Settled
    /\ sent = <<"{", "p", "m", "\n", "x", "x", "\n", "{", "p", "0xC3", "0xA9", "\n">>
    /\ wire = <<>>
    /\ Len(decodedLog) = 2
    /\ error = JStr(NO_SUMMARY_RETURNED)
    /\ result = JNull
    /\ ~isLoading /\ statusMessage = JNull

\* the body of a response sent with res.status(...).json({ error }): one object
\* with a string error, no line break after it
ErrorObjectBody == <<"{", "j">>

\* bodies that end with such an object after lines that are no result and no error frame
ErrorObjectBodies ==
    {joinLines(lines) \o ErrorObjectBody : lines \in SeqsUpTo(QuietLines, MaxLines)}

(* C29: a body that is one JSON object with a string error field and no    *)
(* line break is shown as that error: no event is decoded from it, the     *)
(* leftover of the buffer is parsed after the stream has ended, the error  *)
(* is set to the field's text and no result is set, for every chunking;    *)
(* the same holds when lines that are no result and no error frame come    *)
(* before the object.                                                      *)
C29_UnterminatedErrorObjectIsShown ==
    /\ sent = ErrorObjectBody => decodedLog = <<>>
    /\ sent \in ErrorObjectBodies /\ pc = "read" =>
          /\ error = JNull /\ result = JNull
          /\ wire = <<>> /\ decoderPending = <<>> => trimSpace(buffered) = ErrorObjectBody
    /\ sent \in ErrorObjectBodies /\ Settled =>
          /\ error = JStr(<<"bad">>)
          /\ encounteredError = JStr(<<"bad">>)
          /\ result = JNull
          /\ streamResult = JNull

\* the object alone, read to the end
C29_Witness ==
    /\ Settled
    /\ sent = ErrorObjectBody
    /\ wire = <<>>
    /\ buffered = ErrorObjectBody
    /\ error = JStr(<<"bad">>)
    /\ result = JNull

=============================================================================
